---------------------------- MODULE Spec2Model ----------------------------
(***************************************************************************)
(* A model of the Pi-hole client of terraform-provider-pihole              *)
(* (package internal/pihole): the Client, its session login, the session   *)
(* request builder, the token-mode dispatch and the DNS, CNAME, group and  *)
(* ad-block translators, run against an appliance that answers the HTTP    *)
(* surface the client consumes.                                            *)
(*                                                                         *)
(* Go strings that the code splits, joins, trims or matches are sequences  *)
(* of one-character strings, so that strings.Split, strings.Join,          *)
(* strings.TrimSpace and the regexp ^\S*$ are computed, not assumed.  An   *)
(* optional value (a nil pointer, an absent JSON field) is the empty       *)
(* sequence << >> and a present one is the one-element sequence <<v>>.     *)
(*                                                                         *)
(* Every public operation of the Client with a value receiver,             *)
(* func (c Client) ..., works on a copy of the caller's Client: what it    *)
(* assigns to c.sessionID and c.sessionToken is lost when it returns.      *)
(* Only Init and Login have the pointer receiver func (c *Client).         *)
(***************************************************************************)
EXTENDS Integers, Sequences, FiniteSets, TLC

VARIABLES
    client,     \* the caller's Client object (the *Client that New returned)
    phase,      \* "new" | "ready" | "failed": before Init, after Init returned nil / an error
    hosts,      \* appliance: the lines of config.dns.hosts, in order
    cnames,     \* appliance: the lines of config.dns.cnameRecords, in order
    groups,     \* appliance: the groups of GET /api/groups, in order
    blocking,   \* appliance: the value of the blocking field, "enabled" | "disabled"
    loggedIn,   \* history: a login request of this Client has been answered with a
                \* session (a non-empty sid and a non-empty csrf)
    last,       \* the call that has just returned (operation, arguments, result,
                \* traffic) until the caller has read it; NoCall otherwise
    callers     \* the concurrent callers of one shared Client, each with the
                \* position of its operation and the receiver of that operation;
                \* NoCallers where the Client has one caller

vars == <<client, phase, hosts, cnames, groups, blocking, loggedIn, last, callers>>

-----------------------------------------------------------------------------
(* Bounds of the model                                                     *)

\* The appliance holds at most this many entries (host lines, CNAME lines and
\* groups together).
MaxEntries == 2

-----------------------------------------------------------------------------
(* Strings                                                                 *)

\* strings.Split(s, sep) for a one-character separator: the fields between the
\* separators, one more than there are separators.
RECURSIVE SplitFrom(_, _, _, _)
SplitFrom(s, sep, i, cur) ==
    IF i > Len(s) THEN <<cur>>
    ELSE IF s[i] = sep THEN <<cur>> \o SplitFrom(s, sep, i + 1, <<>>)
    ELSE SplitFrom(s, sep, i + 1, Append(cur, s[i]))

Split(s, sep) == SplitFrom(s, sep, 1, <<>>)

\* strings.Join(elems, sep); sep is a string (here the escapes "%20" and "%2C",
\* each one element of the path).
RECURSIVE Join(_, _)
Join(elems, sep) ==
    IF Len(elems) = 0 THEN <<>>
    ELSE IF Len(elems) = 1 THEN elems[1]
    ELSE elems[1] \o sep \o Join(Tail(elems), sep)

\* The characters \s of the regexp and of strings.TrimSpace that the model uses.
Whitespace == {" ", "\t"}

RECURSIVE TrimLeft(_)
TrimLeft(s) ==
    IF Len(s) > 0 /\ s[1] \in Whitespace THEN TrimLeft(Tail(s)) ELSE s

RECURSIVE TrimRight(_)
TrimRight(s) ==
    IF Len(s) > 0 /\ s[Len(s)] \in Whitespace
    THEN TrimRight(SubSeq(s, 1, Len(s) - 1)) ELSE s

TrimSpace(s) == TrimRight(TrimLeft(s))

\* The appliance's decoding of a request path: %20 is a space, %2C a comma.
RECURSIVE PathUnescape(_)
PathUnescape(p) ==
    IF Len(p) = 0 THEN <<>>
    ELSE <<(IF p[1] = "%20" THEN " " ELSE IF p[1] = "%2C" THEN "," ELSE p[1])>>
         \o PathUnescape(Tail(p))

\* Remove the first occurrence of x from the sequence s.
RECURSIVE RemoveFirst(_, _)
RemoveFirst(s, x) ==
    IF Len(s) = 0 THEN <<>>
    ELSE IF s[1] = x THEN Tail(s)
    ELSE <<s[1]>> \o RemoveFirst(Tail(s), x)

Range(s) == {s[i] : i \in 1..Len(s)}


-----------------------------------------------------------------------------
(* Errors and results                                                      *)

\* An error value: its kind, the HTTP status code it carries (0: none) and,
\* for a wrapped error, the kind of its cause.
Err(kind, code, cause) == [kind |-> kind, code |-> code, cause |-> cause]

Nil == Err("nil", 0, "")

ErrNotImplementedTokenClient == Err("NotImplementedTokenClient", 0, "")

NewNotFoundError == Err("NotFound", 0, "")

\* fmt.Errorf("... got status code %d", res.StatusCode)
StatusError(code) == Err("UnexpectedStatus", code, "")

\* The error c.client.Do returns when no response arrived.
TransportError == Err("Transport", 0, "")

\* The error json.Unmarshal returns on a body that is not the expected JSON.
DecodeError == Err("Decode", 0, "")

\* What a function returns: the error, the value (a list, or a pointer as a
\* sequence of at most one record), the HTTP exchanges made in order, the calls
\* made on the token delegate in order, and the appliance as the call left it.
Outcome(err, val, log, dlog, app) ==
    [err |-> err, val |-> val, log |-> log, dlog |-> dlog, app |-> app]

-----------------------------------------------------------------------------
(* The Client                                                              *)

\* doubleHash256: sha256 applied twice, hex-encoded; never the empty string.
doubleHash256(data) == <<"sha256", "sha256", data>>

\* New: the Client of a configuration; the token delegate exists iff an API
\* token is configured.  The session fields start empty.  cfServiceToken says
\* whether the reverse-proxy credential pair is configured (not nil).
New(config) ==
    [URL            |-> config.URL,
     password       |-> config.Password,
     webPassword    |-> doubleHash256(config.Password),
     sessionID      |-> "",
     sessionToken   |-> "",
     tokenClient    |-> config.APIToken # "",
     cfServiceToken |-> config.CFServiceToken]

\* Mutant of ClientInit: the password is checked before the token delegate.
ClientInit_PasswordBeforeToken(c) ==
    IF c.URL = "" THEN Err("ClientValidationFailed", 0, "URL")
    ELSE IF c.password = "" THEN Err("ClientValidationFailed", 0, "password")
    ELSE IF c.tokenClient THEN Nil
    ELSE IF c.webPassword = "" THEN Err("ClientValidationFailed", 0, "webPassword")
    ELSE Nil

\* Init: validation only, no request and no assignment.
ClientInit(c) ==
    IF c.URL = "" THEN Err("ClientValidationFailed", 0, "URL")
    ELSE IF c.tokenClient THEN Nil
    ELSE IF c.password = "" THEN Err("ClientValidationFailed", 0, "password")
    ELSE IF c.webPassword = "" THEN Err("ClientValidationFailed", 0, "webPassword")
    ELSE Nil

-----------------------------------------------------------------------------
(* Requests, responses and the appliance                                   *)

NoBody == [password |-> <<>>, name |-> <<>>, comment |-> <<>>,
           enabled |-> <<>>, blocking |-> <<>>]

\* An outbound request: the path is the endpoint, item the encoded last path
\* segment; sid and csrf are the session credentials attached to it, cf says
\* whether it carries the reverse-proxy header pair.
Request(method, path, item, body, sid, csrf, cf) ==
    [method |-> method, path |-> path, item |-> item, body |-> body,
     sid |-> sid, csrf |-> csrf, cf |-> cf]

\* A request with the response it got: status 0 stands for no response at all,
\* garbled for a body that is not the expected JSON; rsid and rcsrf are the sid
\* and csrf of a login response, rblocking the "blocking" field of a response
\* of /api/dns/blocking.
Exchange(req, status, garbled, rsid, rcsrf, rblocking) ==
    [method |-> req.method, path |-> req.path, item |-> req.item,
     body |-> req.body, sid |-> req.sid, csrf |-> req.csrf, cf |-> req.cf,
     status |-> status, garbled |-> garbled, rsid |-> rsid, rcsrf |-> rcsrf,
     rblocking |-> rblocking]

\* The appliance's state as one value.
Appliance(h, cn, g, b) == [hosts |-> h, cnames |-> cn, groups |-> g, blocking |-> b]

Size(app) == Len(app.hosts) + Len(app.cnames) + Len(app.groups)

\* The statuses an appliance (or a proxy before it) answers when it does not
\* serve the request: no response, another 2xx, a rejection (an expired
\* session is answered 401).
FaultStatuses == {0, 200, 201, 401}

\* The values of the "blocking" field of a 200 of /api/dns/blocking that are
\* not the appliance's state: a value outside the protocol, an empty or
\* missing field.
UnexpectedBlocking == {"bogus", ""}

\* The responses POST /api/auth can get: a fault, a body that is not JSON, or
\* a session object whose sid or csrf may be missing.
LoginResponses ==
    {[status |-> s, garbled |-> FALSE, sid |-> "", csrf |-> ""] :
        s \in FaultStatuses \ {200}}
    \cup {[status |-> 200, garbled |-> TRUE, sid |-> "", csrf |-> ""]}
    \cup {[status |-> 200, garbled |-> FALSE, sid |-> "s1", csrf |-> "t1"],
          [status |-> 200, garbled |-> FALSE, sid |-> "s1", csrf |-> ""]}

\* PUT and DELETE of one line of a delimited list, as the appliance serves
\* them: a new line must have two fields, and no stored line may have the same
\* domain (field keyField: one record per domain); a deleted line must be
\* stored.  A rejection is answered 400.
PutLine(lines, line, sep, keyField) ==
    LET f == Split(line, sep) IN
    IF Len(f) = 2
       /\ \A i \in 1..Len(lines) :
            LET g == Split(lines[i], sep) IN
            ~(Len(g) >= keyField /\ g[keyField] = f[keyField])
    THEN [status |-> 201, lines |-> Append(lines, line)]
    ELSE [status |-> 400, lines |-> lines]

DeleteLine(lines, line) ==
    IF line \in Range(lines)
    THEN [status |-> 204, lines |-> RemoveFirst(lines, line)]
    ELSE [status |-> 400, lines |-> lines]

\* The groups of the appliance: id, name, comment (null: << >>), enabled,
\* date_added, date_modified.  A created group gets the next id and the
\* creation time 1; an update sets the modification time 2.
GroupNamed(gs, name) == {i \in 1..Len(gs) : gs[i].name = name}

RECURSIVE MaxID(_)
MaxID(gs) ==
    IF Len(gs) = 0 THEN 0
    ELSE LET m == MaxID(Tail(gs)) IN IF gs[1].id > m THEN gs[1].id ELSE m

PostGroup(gs, body) ==
    IF Len(body.name) = 1 /\ GroupNamed(gs, body.name[1]) = {}
    THEN [status |-> 201,
          groups |-> Append(gs, [id |-> MaxID(gs) + 1, name |-> body.name[1],
                                 comment |-> body.comment, enabled |-> TRUE,
                                 date_added |-> 1, date_modified |-> 1])]
    ELSE [status |-> 400, groups |-> gs]

PutGroup(gs, name, body) ==
    IF GroupNamed(gs, name) # {} /\ Len(body.enabled) = 1
    THEN LET i == CHOOSE k \in GroupNamed(gs, name) : TRUE IN
         [status |-> 200,
          groups |-> [gs EXCEPT ![i].comment = body.comment,
                                ![i].enabled = body.enabled[1],
                                ![i].date_modified = 2]]
    ELSE [status |-> 400, groups |-> gs]

DeleteGroupNamed(gs, name) ==
    IF GroupNamed(gs, name) # {}
    THEN LET i == CHOOSE k \in GroupNamed(gs, name) : TRUE IN
         [status |-> 204, groups |-> RemoveFirst(gs, gs[i])]
    ELSE [status |-> 400, groups |-> gs]

\* The status the appliance's contract documents for a served request.
SuccessCode(req) ==
    IF req.method = "GET" THEN 200
    ELSE IF req.method = "DELETE" THEN 204
    ELSE IF req.path = "/api/dns/blocking" THEN 200
    ELSE IF req.method = "PUT" /\ req.path = "/api/groups" THEN 200
    ELSE 201

\* The appliance serving a request per its contract: the status and the
\* state it is left in.
Contract(app, req) ==
    LET keep(status) == [status |-> status, garbled |-> FALSE, app |-> app] IN
    IF req.path = "/api/config/dns/hosts" THEN
        IF req.method = "GET" THEN keep(200)
        ELSE LET r == IF req.method = "PUT"
                      THEN PutLine(app.hosts, PathUnescape(req.item), " ", 2)
                      ELSE DeleteLine(app.hosts, PathUnescape(req.item)) IN
             [status |-> r.status, garbled |-> FALSE,
              app |-> [app EXCEPT !.hosts = r.lines]]
    ELSE IF req.path = "/api/config/dns/cnameRecords" THEN
        IF req.method = "GET" THEN keep(200)
        ELSE LET r == IF req.method = "PUT"
                      THEN PutLine(app.cnames, PathUnescape(req.item), ",", 1)
                      ELSE DeleteLine(app.cnames, PathUnescape(req.item)) IN
             [status |-> r.status, garbled |-> FALSE,
              app |-> [app EXCEPT !.cnames = r.lines]]
    ELSE IF req.path = "/api/groups" THEN
        IF req.method = "GET" THEN keep(200)
        ELSE LET r == IF req.method = "POST" THEN PostGroup(app.groups, req.body)
                      ELSE IF req.method = "PUT"
                      THEN PutGroup(app.groups, req.item, req.body)
                      ELSE DeleteGroupNamed(app.groups, req.item) IN
             [status |-> r.status, garbled |-> FALSE,
              app |-> [app EXCEPT !.groups = r.groups]]
    ELSE \* /api/dns/blocking
        IF req.method = "POST" /\ Len(req.body.blocking) = 1
        THEN [status |-> 200, garbled |-> FALSE,
              app |-> [app EXCEPT !.blocking =
                          IF req.body.blocking[1] THEN "enabled" ELSE "disabled"]]
        ELSE keep(200)

\* c.client.Do(req): every response the request can get.  Either the appliance
\* serves it per its contract, or the request fails: no response, a status
\* other than the documented one, or (where a 200 carries a body the client
\* parses) a body that is not the expected JSON.  A failed request leaves the
\* appliance as it was.  A 200 of /api/dns/blocking carries the "blocking"
\* field: the appliance's state after the request was served, its state as it
\* was when the appliance did not apply the request, or an unexpected value.
Do(app, req) ==
    {LET r == Contract(app, req) IN
     [status |-> r.status, garbled |-> FALSE, app |-> r.app,
      blocking |-> IF req.path = "/api/dns/blocking" THEN r.app.blocking ELSE ""]}
    \cup {[status |-> s, garbled |-> FALSE, app |-> app, blocking |-> ""] :
            s \in FaultStatuses \ {SuccessCode(req)}}
    \cup (IF SuccessCode(req) = 200 /\ req.method # "PUT"
          THEN {[status |-> 200, garbled |-> TRUE, app |-> app, blocking |-> ""]}
          ELSE {})
    \cup (IF req.path = "/api/dns/blocking"
          THEN {[status |-> 200, garbled |-> FALSE, app |-> app, blocking |-> b] :
                  b \in {app.blocking} \cup UnexpectedBlocking}
          ELSE {})

-----------------------------------------------------------------------------
(* The session                                                             *)

\* login: POST the password to /api/auth and, on a 200 with a JSON body,
\* store the sid and the csrf of the response, whatever they are.  Returns
\* the error and the receiver as the call left it (pointer receiver).
login(c, r) ==
    IF r.status = 0 THEN [err |-> TransportError, c |-> c]
    ELSE IF r.status # 200 THEN [err |-> StatusError(r.status), c |-> c]
    ELSE IF r.garbled THEN [err |-> DecodeError, c |-> c]
    ELSE [err |-> Nil,
          c |-> [c EXCEPT !.sessionID = r.sid, !.sessionToken = r.csrf]]

\* Login: login, wrapped; then the two fields are checked (pointer receiver).
Login(c, r) ==
    LET l == login(c, r) IN
    IF l.err # Nil
    THEN [err |-> Err("LoginFailed", l.err.code, l.err.kind), c |-> l.c]
    ELSE IF l.c.sessionToken = ""
    THEN [err |-> Err("ClientValidationFailed", 0, "token"), c |-> l.c]
    ELSE IF l.c.sessionID = ""
    THEN [err |-> Err("ClientValidationFailed", 0, "sessionID"), c |-> l.c]
    ELSE [err |-> Nil, c |-> l.c]

\* The request login sends, and its exchange with response r.  login builds
\* the request itself and sets its Content-Type header, nothing else.
LoginExchange(c, r) ==
    Exchange(Request("POST", "/api/auth", <<>>,
                     [NoBody EXCEPT !.password = <<c.password>>], "", "", FALSE),
             r.status, r.garbled,
             IF r.status = 200 /\ ~r.garbled THEN r.sid ELSE "",
             IF r.status = 200 /\ ~r.garbled THEN r.csrf ELSE "",
             "")

\* url.Values: a form, a function from its keys to the lists of their values.
\* Values.Add(key, value) appends the value to the list of the key.
Add(data, key, value) ==
    IF key \in DOMAIN data THEN [data EXCEPT ![key] = Append(@, value)]
    ELSE data @@ (key :> <<value>>)

\* The inner loop of mergeURLValues, for k, v := range val { data.Add(k, v[0]) },
\* over the keys that are left; the keys are distinct, so the order in which
\* the map is ranged over does not show in the result.
RECURSIVE AddFirstValues(_, _, _)
AddFirstValues(data, val, keys) ==
    IF keys = {} THEN data
    ELSE LET k == CHOOSE x \in keys : TRUE IN
         AddFirstValues(Add(data, k, val[k][1]), val, keys \ {k})

\* mergeURLValues(vs ...url.Values): the outer loop over the arguments.
RECURSIVE mergeURLValuesInto(_, _)
mergeURLValuesInto(data, vs) ==
    IF Len(vs) = 0 THEN data
    ELSE mergeURLValuesInto(AddFirstValues(data, vs[1], DOMAIN vs[1]), Tail(vs))

mergeURLValues(vs) == mergeURLValuesInto(<<>>, vs)

\* The form RequestWithSession sends: the token merged with the caller's
\* values.
SessionForm(c, data) == mergeURLValues(<<("token" :> <<c.sessionToken>>), data>>)

\* What c.cfServiceToken.Set(req) returns.
CFSetResults == {Nil, Err("CFServiceToken", 0, "")}

\* RequestWithSession (value receiver): log in when the session identifier or
\* the session token of the receiver is empty, then build the request with
\* the receiver's session.  The results: the error, the request, the login
\* exchange made if any.  What Login stores is stored in the receiver, the
\* copy this call works on.
\* When the reverse-proxy pair is configured c.cfServiceToken.Set(req) adds the
\* header pair or fails, and then no request is returned.
RequestWithSession(c, method, path, item, body) ==
    LET build(cl, log) ==
            {[err |-> e,
              req |-> Request(method, path, item, body,
                              cl.sessionID, cl.sessionToken, cl.cfServiceToken),
              log |-> log]
             : e \in IF cl.cfServiceToken THEN CFSetResults ELSE {Nil}}
    IN
    IF c.sessionToken = "" \/ c.sessionID = ""
    THEN UNION {LET l == Login(c, r) IN
                IF l.err # Nil
                THEN {[err |-> l.err,
                       req |-> Request(method, path, item, body,
                                       l.c.sessionID, l.c.sessionToken, FALSE),
                       log |-> <<LoginExchange(c, r)>>]}
                ELSE build(l.c, <<LoginExchange(c, r)>>)
                : r \in LoginResponses}
    ELSE build(c, <<>>)

\* RequestWithSession2, the variant with a JSON body that the operations
\* call: the same session handling.
RequestWithSession2(c, method, path, item, body) ==
    RequestWithSession(c, method, path, item, body)

\* The two statements every session operation starts with:
\*   req, err := c.RequestWithSession2(ctx, method, path, data)
\*   res, err := c.client.Do(req)
\* The results: the error of either (Nil when a response arrived), the
\* response, and the exchanges made.
SessionDo(c, app, method, path, item, body) ==
    UNION {
        IF rws.err # Nil
        THEN {[err |-> rws.err, status |-> 0, garbled |-> FALSE,
               app |-> app, blocking |-> "", log |-> rws.log]}
        ELSE {[err |-> IF res.status = 0 THEN TransportError ELSE Nil,
               status |-> res.status, garbled |-> res.garbled, app |-> res.app,
               blocking |-> res.blocking,
               log |-> Append(rws.log, Exchange(rws.req, res.status, res.garbled,
                                                "", "", res.blocking))] :
                 res \in Do(app, rws.req)}
      : rws \in RequestWithSession2(c, method, path, item, body)}

-----------------------------------------------------------------------------
(* The token delegate (the go-pihole client)                               *)

\* A call made on the delegate: the operation, the arguments in order and the
\* error it returned.
DelegateCall(op, args, err) == [op |-> op, args |-> args, err |-> err]

\* The delegate's "not found" errors and any other error it returns.
ErrorLocalDNSNotFound == Err("ErrorLocalDNSNotFound", 0, "")

ErrorLocalCNAMENotFound == Err("ErrorLocalCNAMENotFound", 0, "")

DelegateError == Err("DelegateError", 0, "")

\* What a delegate call returns: the record (a pointer) and the error.  Create
\* returns the record of its arguments or fails; Get returns a record of the
\* domain asked for, its not-found error or another error; Delete returns nil
\* or an error.
DelegateCreate(rec) == {[val |-> <<rec>>, err |-> Nil], [val |-> <<>>, err |-> DelegateError]}

DelegateGet(recs, notFound) ==
    {[val |-> <<rec>>, err |-> Nil] : rec \in recs}
    \cup {[val |-> <<>>, err |-> notFound], [val |-> <<>>, err |-> DelegateError]}

DelegateDelete(notFound) == {Nil, notFound, DelegateError}

-----------------------------------------------------------------------------
(* DNS records                                                             *)

DNSRecord(ip, domain) == [IP |-> ip, Domain |-> domain]

\* Mutant of DNSRecordsOfHosts: an entry without two fields is skipped.
RECURSIVE DNSRecordsOfHosts_SkipMalformed(_)
DNSRecordsOfHosts_SkipMalformed(lines) ==
    IF Len(lines) = 0 THEN [err |-> Nil, list |-> <<>>]
    ELSE LET splitted == Split(lines[1], " ")
             rest == DNSRecordsOfHosts_SkipMalformed(Tail(lines)) IN
         IF Len(splitted) # 2 THEN rest
         ELSE [err |-> Nil,
               list |-> <<DNSRecord(splitted[1], splitted[2])>> \o rest.list]

\* The loop of ListDNSRecords over response.Config.DNS.Hosts: split every
\* entry on a space; an entry without exactly two fields fails the call.
RECURSIVE DNSRecordsOfHosts(_)
DNSRecordsOfHosts(lines) ==
    IF Len(lines) = 0 THEN [err |-> Nil, list |-> <<>>]
    ELSE LET splitted == Split(lines[1], " ") IN
         IF Len(splitted) # 2
         THEN [err |-> Err("ParseRecords", 0, ""), list |-> <<>>]
         ELSE LET rest == DNSRecordsOfHosts(Tail(lines)) IN
              IF rest.err # Nil THEN rest
              ELSE [err |-> Nil,
                    list |-> <<DNSRecord(splitted[1], splitted[2])>> \o rest.list]

\* Mutant of ListDNSRecords: on a 401 it logs in again and sends the request
\* a second time.
ListDNSRecords_RetriesOn401(c, app) ==
    LET finish(r, log) ==
            IF r.err # Nil THEN Outcome(r.err, <<>>, log, <<>>, r.app)
            ELSE IF r.status # 200
            THEN Outcome(StatusError(r.status), <<>>, log, <<>>, r.app)
            ELSE IF r.garbled THEN Outcome(DecodeError, <<>>, log, <<>>, r.app)
            ELSE LET p == DNSRecordsOfHosts(r.app.hosts) IN
                 Outcome(p.err, p.list, log, <<>>, r.app)
    IN
    IF c.tokenClient
    THEN {Outcome(ErrNotImplementedTokenClient, <<>>, <<>>, <<>>, app)}
    ELSE UNION {
            IF r.err = Nil /\ r.status = 401
            THEN {finish(again, r.log \o again.log)
                  : again \in SessionDo([c EXCEPT !.sessionID = "", !.sessionToken = ""],
                                        r.app, "GET", "/api/config/dns/hosts", <<>>, NoBody)}
            ELSE {finish(r, r.log)}
          : r \in SessionDo(c, app, "GET", "/api/config/dns/hosts", <<>>, NoBody)}

ListDNSRecords(c, app) ==
    IF c.tokenClient
    THEN {Outcome(ErrNotImplementedTokenClient, <<>>, <<>>, <<>>, app)}
    ELSE {IF r.err # Nil THEN Outcome(r.err, <<>>, r.log, <<>>, r.app)
          ELSE IF r.status # 200
          THEN Outcome(StatusError(r.status), <<>>, r.log, <<>>, r.app)
          ELSE IF r.garbled THEN Outcome(DecodeError, <<>>, r.log, <<>>, r.app)
          ELSE LET p == DNSRecordsOfHosts(r.app.hosts) IN
               Outcome(p.err, p.list, r.log, <<>>, r.app)
          : r \in SessionDo(c, app, "GET", "/api/config/dns/hosts", <<>>, NoBody)}

\* Mutant of CreateDNSRecord: the path is built domain first.
CreateDNSRecord_DomainFirst(c, app, record) ==
    IF c.tokenClient
    THEN {Outcome(d.err, d.val, <<>>,
                  <<DelegateCall("LocalDNS.Create", <<record.Domain, record.IP>>, d.err)>>,
                  app)
          : d \in DelegateCreate(DNSRecord(record.IP, record.Domain))}
    ELSE LET cfg == Join(<<record.Domain, record.IP>>, <<"%20">>) IN
         {IF r.err # Nil THEN Outcome(r.err, <<>>, r.log, <<>>, r.app)
          ELSE IF r.status # 201
          THEN Outcome(StatusError(r.status), <<>>, r.log, <<>>, r.app)
          ELSE Outcome(Nil, <<record>>, r.log, <<>>, r.app)
          : r \in SessionDo(c, app, "PUT", "/api/config/dns/hosts", cfg, NoBody)}

\* Mutant of CreateDNSRecord: the delegate is used only when no password is
\* configured.
CreateDNSRecord_PasswordFirst(c, app, record) ==
    IF c.tokenClient /\ c.password = ""
    THEN {Outcome(d.err, d.val, <<>>,
                  <<DelegateCall("LocalDNS.Create", <<record.Domain, record.IP>>, d.err)>>,
                  app)
          : d \in DelegateCreate(DNSRecord(record.IP, record.Domain))}
    ELSE LET cfg == Join(<<record.IP, record.Domain>>, <<"%20">>) IN
         {IF r.err # Nil THEN Outcome(r.err, <<>>, r.log, <<>>, r.app)
          ELSE IF r.status # 201
          THEN Outcome(StatusError(r.status), <<>>, r.log, <<>>, r.app)
          ELSE Outcome(Nil, <<record>>, r.log, <<>>, r.app)
          : r \in SessionDo(c, app, "PUT", "/api/config/dns/hosts", cfg, NoBody)}

CreateDNSRecord(c, app, record) ==
    IF c.tokenClient
    THEN {Outcome(d.err, d.val, <<>>,
                  <<DelegateCall("LocalDNS.Create", <<record.Domain, record.IP>>, d.err)>>,
                  app)
          : d \in DelegateCreate(DNSRecord(record.IP, record.Domain))}
    ELSE LET cfg == Join(<<record.IP, record.Domain>>, <<"%20">>) IN
         {IF r.err # Nil THEN Outcome(r.err, <<>>, r.log, <<>>, r.app)
          ELSE IF r.status # 201
          THEN Outcome(StatusError(r.status), <<>>, r.log, <<>>, r.app)
          ELSE Outcome(Nil, <<record>>, r.log, <<>>, r.app)
          : r \in SessionDo(c, app, "PUT", "/api/config/dns/hosts", cfg, NoBody)}

\* The first record of the list with the domain: a pointer to it, or nil.
RECURSIVE FirstWithDomain(_, _)
FirstWithDomain(list, domain) ==
    IF Len(list) = 0 THEN <<>>
    ELSE IF list[1].Domain = domain THEN <<list[1]>>
    ELSE FirstWithDomain(Tail(list), domain)

GetDNSRecord(c, app, domain) ==
    IF c.tokenClient
    THEN {Outcome(IF d.err = ErrorLocalDNSNotFound THEN NewNotFoundError ELSE d.err,
                  d.val, <<>>, <<DelegateCall("LocalDNS.Get", <<domain>>, d.err)>>, app)
          : d \in DelegateGet({DNSRecord(<<"1">>, domain)}, ErrorLocalDNSNotFound)}
    ELSE {IF l.err # Nil THEN Outcome(l.err, <<>>, l.log, <<>>, l.app)
          ELSE LET found == FirstWithDomain(l.val, domain) IN
               IF Len(found) = 1 THEN Outcome(Nil, found, l.log, <<>>, l.app)
               ELSE Outcome(NewNotFoundError, <<>>, l.log, <<>>, l.app)
          : l \in ListDNSRecords(c, app)}

\* Mutant of DeleteDNSRecord: the DELETE is sent whether or not the Get found
\* the record, to the path of the domain alone when it did not.
DeleteDNSRecord_IgnoresGet(c, app, domain) ==
    IF c.tokenClient
    THEN {Outcome(e, <<>>, <<>>, <<DelegateCall("LocalDNS.Delete", <<domain>>, e)>>, app)
          : e \in DelegateDelete(ErrorLocalDNSNotFound)}
    ELSE UNION {
        LET cfg == IF g.err # Nil THEN domain
                   ELSE Join(<<g.val[1].IP, g.val[1].Domain>>, <<"%20">>) IN
        {IF r.err # Nil THEN Outcome(r.err, <<>>, g.log \o r.log, <<>>, r.app)
         ELSE IF r.status # 204
         THEN Outcome(StatusError(r.status), <<>>, g.log \o r.log, <<>>, r.app)
         ELSE Outcome(Nil, <<>>, g.log \o r.log, <<>>, r.app)
         : r \in SessionDo(c, g.app, "DELETE", "/api/config/dns/hosts", cfg, NoBody)}
      : g \in GetDNSRecord(c, app, domain)}

DeleteDNSRecord(c, app, domain) ==
    IF c.tokenClient
    THEN {Outcome(e, <<>>, <<>>, <<DelegateCall("LocalDNS.Delete", <<domain>>, e)>>, app)
          : e \in DelegateDelete(ErrorLocalDNSNotFound)}
    ELSE UNION {
        IF g.err # Nil THEN {Outcome(g.err, <<>>, g.log, <<>>, g.app)}
        ELSE LET record == g.val[1]
                 cfg == Join(<<record.IP, record.Domain>>, <<"%20">>) IN
             {IF r.err # Nil THEN Outcome(r.err, <<>>, g.log \o r.log, <<>>, r.app)
              ELSE IF r.status # 204
              THEN Outcome(StatusError(r.status), <<>>, g.log \o r.log, <<>>, r.app)
              ELSE Outcome(Nil, <<>>, g.log \o r.log, <<>>, r.app)
              : r \in SessionDo(c, g.app, "DELETE", "/api/config/dns/hosts", cfg, NoBody)}
      : g \in GetDNSRecord(c, app, domain)}

-----------------------------------------------------------------------------
(* CNAME records                                                           *)

CNAMERecord(domain, target) == [Domain |-> domain, Target |-> target]

\* The loop of ListCNAMERecords: split every entry on a comma; an entry
\* without exactly two fields fails the call.
RECURSIVE CNAMERecordsOfHosts(_)
CNAMERecordsOfHosts(lines) ==
    IF Len(lines) = 0 THEN [err |-> Nil, list |-> <<>>]
    ELSE LET splitted == Split(lines[1], ",") IN
         IF Len(splitted) # 2
         THEN [err |-> Err("ParseRecords", 0, ""), list |-> <<>>]
         ELSE LET rest == CNAMERecordsOfHosts(Tail(lines)) IN
              IF rest.err # Nil THEN rest
              ELSE [err |-> Nil,
                    list |-> <<CNAMERecord(splitted[1], splitted[2])>> \o rest.list]

ListCNAMERecords(c, app) ==
    IF c.tokenClient
    THEN {Outcome(ErrNotImplementedTokenClient, <<>>, <<>>, <<>>, app)}
    ELSE {IF r.err # Nil THEN Outcome(r.err, <<>>, r.log, <<>>, r.app)
          ELSE IF r.status # 200
          THEN Outcome(StatusError(r.status), <<>>, r.log, <<>>, r.app)
          ELSE IF r.garbled THEN Outcome(DecodeError, <<>>, r.log, <<>>, r.app)
          ELSE LET p == CNAMERecordsOfHosts(r.app.cnames) IN
               Outcome(p.err, p.list, r.log, <<>>, r.app)
          : r \in SessionDo(c, app, "GET", "/api/config/dns/cnameRecords", <<>>, NoBody)}

\* Mutant of GetCNAMERecord: every failure is reported as not found.
GetCNAMERecord_AlwaysNotFound(c, app, domain) ==
    IF c.tokenClient
    THEN {Outcome(IF d.err # Nil THEN NewNotFoundError ELSE d.err,
                  d.val, <<>>, <<DelegateCall("LocalCNAME.Get", <<domain>>, d.err)>>, app)
          : d \in DelegateGet({CNAMERecord(domain, <<"t">>)}, ErrorLocalCNAMENotFound)}
    ELSE {IF l.err # Nil THEN Outcome(NewNotFoundError, <<>>, l.log, <<>>, l.app)
          ELSE LET found == FirstWithDomain(l.val, domain) IN
               IF Len(found) = 1 THEN Outcome(Nil, found, l.log, <<>>, l.app)
               ELSE Outcome(NewNotFoundError, <<>>, l.log, <<>>, l.app)
          : l \in ListCNAMERecords(c, app)}

GetCNAMERecord(c, app, domain) ==
    IF c.tokenClient
    THEN {Outcome(IF d.err = ErrorLocalCNAMENotFound THEN NewNotFoundError ELSE d.err,
                  d.val, <<>>, <<DelegateCall("LocalCNAME.Get", <<domain>>, d.err)>>, app)
          : d \in DelegateGet({CNAMERecord(domain, <<"t">>)}, ErrorLocalCNAMENotFound)}
    ELSE {IF l.err # Nil THEN Outcome(l.err, <<>>, l.log, <<>>, l.app)
          ELSE LET found == FirstWithDomain(l.val, domain) IN
               IF Len(found) = 1 THEN Outcome(Nil, found, l.log, <<>>, l.app)
               ELSE Outcome(NewNotFoundError, <<>>, l.log, <<>>, l.app)
          : l \in ListCNAMERecords(c, app)}

\* Mutant of CreateCNAMERecord: a 200 is taken for a success too.
CreateCNAMERecord_Any2xx(c, app, record) ==
    IF c.tokenClient
    THEN {Outcome(d.err, d.val, <<>>,
                  <<DelegateCall("LocalCNAME.Create", <<record.Domain, record.Target>>, d.err)>>,
                  app)
          : d \in DelegateCreate(CNAMERecord(record.Domain, record.Target))}
    ELSE LET cfg == Join(<<record.Domain, record.Target>>, <<"%2C">>) IN
         {IF r.err # Nil THEN Outcome(r.err, <<>>, r.log, <<>>, r.app)
          ELSE IF r.status \notin {200, 201}
          THEN Outcome(StatusError(r.status), <<>>, r.log, <<>>, r.app)
          ELSE Outcome(Nil, <<record>>, r.log, <<>>, r.app)
          : r \in SessionDo(c, app, "PUT", "/api/config/dns/cnameRecords", cfg, NoBody)}

CreateCNAMERecord(c, app, record) ==
    IF c.tokenClient
    THEN {Outcome(d.err, d.val, <<>>,
                  <<DelegateCall("LocalCNAME.Create", <<record.Domain, record.Target>>, d.err)>>,
                  app)
          : d \in DelegateCreate(CNAMERecord(record.Domain, record.Target))}
    ELSE LET cfg == Join(<<record.Domain, record.Target>>, <<"%2C">>) IN
         {IF r.err # Nil THEN Outcome(r.err, <<>>, r.log, <<>>, r.app)
          ELSE IF r.status # 201
          THEN Outcome(StatusError(r.status), <<>>, r.log, <<>>, r.app)
          ELSE Outcome(Nil, <<record>>, r.log, <<>>, r.app)
          : r \in SessionDo(c, app, "PUT", "/api/config/dns/cnameRecords", cfg, NoBody)}

DeleteCNAMERecord(c, app, domain) ==
    IF c.tokenClient
    THEN {Outcome(e, <<>>, <<>>, <<DelegateCall("LocalCNAME.Delete", <<domain>>, e)>>, app)
          : e \in DelegateDelete(ErrorLocalCNAMENotFound)}
    ELSE UNION {
        IF g.err # Nil THEN {Outcome(g.err, <<>>, g.log, <<>>, g.app)}
        ELSE LET record == g.val[1]
                 cfg == Join(<<record.Domain, record.Target>>, <<"%2C">>) IN
             {IF r.err # Nil THEN Outcome(r.err, <<>>, g.log \o r.log, <<>>, r.app)
              ELSE IF r.status # 204
              THEN Outcome(StatusError(r.status), <<>>, g.log \o r.log, <<>>, r.app)
              ELSE Outcome(Nil, <<>>, g.log \o r.log, <<>>, r.app)
              : r \in SessionDo(c, g.app, "DELETE", "/api/config/dns/cnameRecords",
                                cfg, NoBody)}
      : g \in GetCNAMERecord(c, app, domain)}

-----------------------------------------------------------------------------
(* Groups                                                                  *)

\* The loop of ListGroups over response.Groups: one Group per element, a null
\* comment giving the empty description.  time.Unix(n, 0) is the number n.
RECURSIVE GroupsOfResponse(_)
GroupsOfResponse(gs) ==
    IF Len(gs) = 0 THEN <<>>
    ELSE LET v == gs[1]
             comment == IF Len(v.comment) = 1 THEN v.comment[1] ELSE <<>> IN
         <<[ID           |-> v.id,
            Enabled      |-> v.enabled,
            Name         |-> v.name,
            DateAdded    |-> v.date_modified,
            DateModified |-> v.date_modified,
            Description  |-> comment]>> \o GroupsOfResponse(Tail(gs))

ListGroups(c, app) ==
    IF c.tokenClient
    THEN {Outcome(ErrNotImplementedTokenClient, <<>>, <<>>, <<>>, app)}
    ELSE {IF r.err # Nil THEN Outcome(r.err, <<>>, r.log, <<>>, r.app)
          ELSE IF r.status # 200
          THEN Outcome(StatusError(r.status), <<>>, r.log, <<>>, r.app)
          ELSE IF r.garbled THEN Outcome(DecodeError, <<>>, r.log, <<>>, r.app)
          ELSE Outcome(Nil, GroupsOfResponse(r.app.groups), r.log, <<>>, r.app)
          : r \in SessionDo(c, app, "GET", "/api/groups", <<>>, NoBody)}

RECURSIVE FirstWithName(_, _)
FirstWithName(list, name) ==
    IF Len(list) = 0 THEN <<>>
    ELSE IF list[1].Name = name THEN <<list[1]>>
    ELSE FirstWithName(Tail(list), name)

RECURSIVE FirstWithID(_, _)
FirstWithID(list, id) ==
    IF Len(list) = 0 THEN <<>>
    ELSE IF list[1].ID = id THEN <<list[1]>>
    ELSE FirstWithID(Tail(list), id)

GetGroup(c, app, name) ==
    IF c.tokenClient
    THEN {Outcome(ErrNotImplementedTokenClient, <<>>, <<>>, <<>>, app)}
    ELSE {IF l.err # Nil THEN Outcome(l.err, <<>>, l.log, <<>>, l.app)
          ELSE LET found == FirstWithName(l.val, name) IN
               IF Len(found) = 1 THEN Outcome(Nil, found, l.log, <<>>, l.app)
               ELSE Outcome(NewNotFoundError, <<>>, l.log, <<>>, l.app)
          : l \in ListGroups(c, app)}

GetGroupByID(c, app, id) ==
    IF c.tokenClient
    THEN {Outcome(ErrNotImplementedTokenClient, <<>>, <<>>, <<>>, app)}
    ELSE {IF l.err # Nil THEN Outcome(l.err, <<>>, l.log, <<>>, l.app)
          ELSE LET found == FirstWithID(l.val, id) IN
               IF Len(found) = 1 THEN Outcome(Nil, found, l.log, <<>>, l.app)
               ELSE Outcome(NewNotFoundError, <<>>, l.log, <<>>, l.app)
          : l \in ListGroups(c, app)}

\* validGroupName: the regexp ^\S*$, no whitespace character anywhere.
validGroupName(name) == \A i \in 1..Len(name) : name[i] \notin Whitespace

\* CreateGroup validates the trimmed name, posts gr.Name as given, and looks
\* the created group up by the trimmed name.
CreateGroup(c, app, gr) ==
    IF c.tokenClient
    THEN {Outcome(ErrNotImplementedTokenClient, <<>>, <<>>, <<>>, app)}
    ELSE LET name == TrimSpace(gr.Name) IN
         IF ~validGroupName(name)
         THEN {Outcome(Err("InvalidGroupName", 0, ""), <<>>, <<>>, <<>>, app)}
         ELSE UNION {
            IF r.err # Nil THEN {Outcome(r.err, <<>>, r.log, <<>>, r.app)}
            ELSE IF r.status # 201
            THEN {Outcome(StatusError(r.status), <<>>, r.log, <<>>, r.app)}
            ELSE {Outcome(g.err, g.val, r.log \o g.log, <<>>, g.app)
                  : g \in GetGroup(c, r.app, name)}
          : r \in SessionDo(c, app, "POST", "/api/groups", <<>>,
                            [NoBody EXCEPT !.name = <<gr.Name>>,
                                           !.comment = <<gr.Description>>])}

UpdateGroup(c, app, gr) ==
    IF c.tokenClient
    THEN {Outcome(ErrNotImplementedTokenClient, <<>>, <<>>, <<>>, app)}
    ELSE UNION {
            IF r.err # Nil THEN {Outcome(r.err, <<>>, r.log, <<>>, r.app)}
            ELSE IF r.status # 200
            THEN {Outcome(StatusError(r.status), <<>>, r.log, <<>>, r.app)}
            ELSE {Outcome(g.err, g.val, r.log \o g.log, <<>>, g.app)
                  : g \in GetGroup(c, r.app, gr.Name)}
          : r \in SessionDo(c, app, "PUT", "/api/groups", gr.Name,
                            [NoBody EXCEPT !.name = <<gr.Name>>,
                                           !.comment = <<gr.Description>>,
                                           !.enabled = gr.Enabled])}

\* Mutant of DeleteGroup: the token-mode check is missing.
DeleteGroup_NoTokenCheck(c, app, name) ==
    {IF r.err # Nil THEN Outcome(r.err, <<>>, r.log, <<>>, r.app)
     ELSE IF r.status # 204
     THEN Outcome(StatusError(r.status), <<>>, r.log, <<>>, r.app)
     ELSE Outcome(Nil, <<>>, r.log, <<>>, r.app)
     : r \in SessionDo(c, app, "DELETE", "/api/groups", name, NoBody)}

DeleteGroup(c, app, name) ==
    IF c.tokenClient
    THEN {Outcome(ErrNotImplementedTokenClient, <<>>, <<>>, <<>>, app)}
    ELSE {IF r.err # Nil THEN Outcome(r.err, <<>>, r.log, <<>>, r.app)
          ELSE IF r.status # 204
          THEN Outcome(StatusError(r.status), <<>>, r.log, <<>>, r.app)
          ELSE Outcome(Nil, <<>>, r.log, <<>>, r.app)
          : r \in SessionDo(c, app, "DELETE", "/api/groups", name, NoBody)}

-----------------------------------------------------------------------------
(* Ad blocking                                                             *)

\* Mutant of EnableAdBlockOf: Enabled is whether the value is "enabled", and
\* no value is an error.
EnableAdBlockOf_Coerced(blockingValue) ==
    [err |-> Nil, val |-> <<[Enabled |-> (blockingValue = "enabled")]>>]

\* The switch on response.Blocking.
EnableAdBlockOf(blockingValue) ==
    IF blockingValue = "disabled" THEN [err |-> Nil, val |-> <<[Enabled |-> FALSE]>>]
    ELSE IF blockingValue = "enabled" THEN [err |-> Nil, val |-> <<[Enabled |-> TRUE]>>]
    ELSE [err |-> Err("UnexpectedBlocking", 0, ""), val |-> <<>>]

GetAdBlockerStatus(c, app) ==
    IF c.tokenClient
    THEN {Outcome(ErrNotImplementedTokenClient, <<>>, <<>>, <<>>, app)}
    ELSE {IF r.err # Nil THEN Outcome(r.err, <<>>, r.log, <<>>, r.app)
          ELSE IF r.status # 200
          THEN Outcome(StatusError(r.status), <<>>, r.log, <<>>, r.app)
          ELSE IF r.garbled THEN Outcome(DecodeError, <<>>, r.log, <<>>, r.app)
          ELSE LET e == EnableAdBlockOf(r.blocking) IN
               Outcome(e.err, e.val, r.log, <<>>, r.app)
          : r \in SessionDo(c, app, "GET", "/api/dns/blocking", <<>>, NoBody)}

SetAdBlockEnabled(c, app, enable) ==
    IF c.tokenClient
    THEN {Outcome(ErrNotImplementedTokenClient, <<>>, <<>>, <<>>, app)}
    ELSE {IF r.err # Nil THEN Outcome(r.err, <<>>, r.log, <<>>, r.app)
          ELSE IF r.status # 200
          THEN Outcome(StatusError(r.status), <<>>, r.log, <<>>, r.app)
          ELSE IF r.garbled THEN Outcome(DecodeError, <<>>, r.log, <<>>, r.app)
          ELSE LET e == EnableAdBlockOf(r.blocking) IN
               Outcome(e.err, e.val, r.log, <<>>, r.app)
          : r \in SessionDo(c, app, "POST", "/api/dns/blocking", <<>>,
                            [NoBody EXCEPT !.blocking = <<enable>>])}

-----------------------------------------------------------------------------
(* The inputs the calls are made with                                      *)

\* The configurations without the reverse-proxy credential pair, and all of
\* them.
Configs == [URL : {"", "u"}, Password : {"", "pw"}, APIToken : {"", "tok"},
            CFServiceToken : {FALSE}]

CFConfigs == [URL : {"", "u"}, Password : {"", "pw"}, APIToken : {"", "tok"},
              CFServiceToken : BOOLEAN]

Domains == {<<"a">>, <<"b">>}

\* Two records of one domain and one of another.
DNSRecords == {DNSRecord(<<"1">>, <<"a">>), DNSRecord(<<"2">>, <<"a">>),
               DNSRecord(<<"1">>, <<"b">>)}

CNAMERecords == {CNAMERecord(<<"a">>, <<"t">>), CNAMERecord(<<"b">>, <<"t">>)}

\* Group names: without whitespace, with a leading space and a trailing tab,
\* with an embedded space.
GroupNames == {<<"g">>, <<" ", "g", "\t">>, <<"g", " ", "h">>}

GroupCreateRequests == [Name : GroupNames, Description : {<<"d">>}]

GroupUpdateRequests == [Name : {<<"g">>, <<"h">>}, Enabled : {<<FALSE>>},
                        Description : {<<"e">>}]

\* What the appliance may hold when the client is constructed: well-formed
\* lines, also two of one domain, and lines that do not have two fields.
InitHostLines ==
    {r.IP \o <<" ">> \o r.Domain : r \in DNSRecords}
    \cup {<<"x">>, <<"1", " ", "a", " ", "b">>}

InitCNAMELines ==
    {r.Domain \o <<",">> \o r.Target : r \in CNAMERecords}
    \cup {<<"x">>, <<"a", ",", "t", ",", "u">>}

InitGroups ==
    {[id |-> 1, name |-> <<"g">>, comment |-> <<>>, enabled |-> TRUE,
      date_added |-> 1, date_modified |-> 1],
     [id |-> 2, name |-> <<"h">>, comment |-> <<<<"d">>>>, enabled |-> FALSE,
      date_added |-> 1, date_modified |-> 2]}

\* The sequences of at most n distinct elements of S.
RECURSIVE SeqsUpTo(_, _)
SeqsUpTo(S, n) ==
    IF n = 0 THEN {<<>>}
    ELSE LET shorter == SeqsUpTo(S, n - 1) IN
         shorter \cup {Append(q, x) : q \in {t \in shorter : Len(t) = n - 1},
                                       x \in S}

Distinct(q) == \A i, j \in 1..Len(q) : i # j => q[i] # q[j]

InitAppliances ==
    {app \in [hosts    : {q \in SeqsUpTo(InitHostLines, MaxEntries) : Distinct(q)},
              cnames   : {q \in SeqsUpTo(InitCNAMELines, MaxEntries) : Distinct(q)},
              groups   : {q \in SeqsUpTo(InitGroups, MaxEntries) : Distinct(q)},
              blocking : {"enabled", "disabled"}] :
        Size(app) <= MaxEntries}

-----------------------------------------------------------------------------
(* The state machine: the caller's calls on one Client                     *)

App == Appliance(hosts, cnames, groups, blocking)

\* The caller holds no unread result.
NoCall == [op |-> "none"]

\* The Client has one caller, which makes one call at a time.
NoCallers == <<>>

Idle == phase = "ready" /\ last = NoCall

\* A returned call: pre is the caller's Client when the call was made, logged
\* the value of loggedIn then.
Call(op, arg, pre, out) ==
    [op |-> op, arg |-> arg, pre |-> pre, logged |-> loggedIn,
     err |-> out.err, val |-> out.val, log |-> out.log, dlog |-> out.dlog]

\* The exchange is a login that was answered with a session.
LoginSucceeded(e) ==
    e.path = "/api/auth" /\ e.status = 200 /\ ~e.garbled /\ e.rsid # "" /\ e.rcsrf # ""

AnyLoginSucceeded(log) == \E k \in 1..Len(log) : LoginSucceeded(log[k])

InitWith(configs) ==
    /\ \E config \in configs : client = New(config)
    /\ phase = "new"
    /\ loggedIn = FALSE
    /\ \E app \in InitAppliances :
        /\ hosts = app.hosts
        /\ cnames = app.cnames
        /\ groups = app.groups
        /\ blocking = app.blocking
    /\ last = Call("New", <<>>, client, Outcome(Nil, <<>>, <<>>, <<>>, <<>>))
    /\ callers = NoCallers

Init == InitWith(Configs)

\* The same with the reverse-proxy credential pair configured or not.
InitCF == InitWith(CFConfigs)

\* Config.Client: Init is called once on the new Client; the Client is handed
\* out only when Init returned nil.
InitOp ==
    /\ phase = "new"
    /\ last.op = "New"
    /\ LET err == ClientInit(client) IN
        /\ phase' = IF err = Nil THEN "ready" ELSE "failed"
        /\ last' = Call("Init", <<>>, client, Outcome(err, <<>>, <<>>, <<>>, <<>>))
    /\ UNCHANGED <<client, hosts, cnames, groups, blocking, loggedIn, callers>>

\* Login has a pointer receiver: the caller's Client keeps what login stored.
\* It is called for session based requests, not on a token Client.
LoginOp ==
    /\ Idle
    /\ ~client.tokenClient
    /\ \E r \in LoginResponses :
        LET l == Login(client, r) IN
        /\ client' = l.c
        /\ last' = Call("Login", <<>>, client,
                        Outcome(l.err, <<>>, <<LoginExchange(client, r)>>, <<>>, <<>>))
        /\ loggedIn' = (loggedIn \/ LoginSucceeded(LoginExchange(client, r)))
    /\ UNCHANGED <<phase, hosts, cnames, groups, blocking, callers>>

\* A resource operation has a value receiver: it returns its outcome, the
\* appliance is as its requests left it, the caller's Client is untouched.
Return(op, arg, out) ==
    /\ Size(out.app) <= MaxEntries
    /\ last' = Call(op, arg, client, out)
    /\ hosts' = out.app.hosts
    /\ cnames' = out.app.cnames
    /\ groups' = out.app.groups
    /\ blocking' = out.app.blocking
    /\ loggedIn' = (loggedIn \/ AnyLoginSucceeded(out.log))
    /\ UNCHANGED <<client, phase, callers>>

ListDNSRecordsOp ==
    /\ Idle
    /\ \E out \in ListDNSRecords(client, App) : Return("ListDNSRecords", <<>>, out)

CreateDNSRecordOp ==
    /\ Idle
    /\ \E record \in DNSRecords : \E out \in CreateDNSRecord(client, App, record) :
        Return("CreateDNSRecord", <<record>>, out)

GetDNSRecordOp ==
    /\ Idle
    /\ \E domain \in Domains : \E out \in GetDNSRecord(client, App, domain) :
        Return("GetDNSRecord", <<domain>>, out)

DeleteDNSRecordOp ==
    /\ Idle
    /\ \E domain \in Domains : \E out \in DeleteDNSRecord(client, App, domain) :
        Return("DeleteDNSRecord", <<domain>>, out)

ListCNAMERecordsOp ==
    /\ Idle
    /\ \E out \in ListCNAMERecords(client, App) : Return("ListCNAMERecords", <<>>, out)

CreateCNAMERecordOp ==
    /\ Idle
    /\ \E record \in CNAMERecords : \E out \in CreateCNAMERecord(client, App, record) :
        Return("CreateCNAMERecord", <<record>>, out)

GetCNAMERecordOp ==
    /\ Idle
    /\ \E domain \in Domains : \E out \in GetCNAMERecord(client, App, domain) :
        Return("GetCNAMERecord", <<domain>>, out)

DeleteCNAMERecordOp ==
    /\ Idle
    /\ \E domain \in Domains : \E out \in DeleteCNAMERecord(client, App, domain) :
        Return("DeleteCNAMERecord", <<domain>>, out)

ListGroupsOp ==
    /\ Idle
    /\ \E out \in ListGroups(client, App) : Return("ListGroups", <<>>, out)

GetGroupOp ==
    /\ Idle
    /\ \E name \in {<<"g">>, <<"h">>} : \E out \in GetGroup(client, App, name) :
        Return("GetGroup", <<name>>, out)

GetGroupByIDOp ==
    /\ Idle
    /\ \E id \in {1, 2} : \E out \in GetGroupByID(client, App, id) :
        Return("GetGroupByID", <<id>>, out)

CreateGroupOp ==
    /\ Idle
    /\ \E gr \in GroupCreateRequests : \E out \in CreateGroup(client, App, gr) :
        Return("CreateGroup", <<gr>>, out)

UpdateGroupOp ==
    /\ Idle
    /\ \E gr \in GroupUpdateRequests : \E out \in UpdateGroup(client, App, gr) :
        Return("UpdateGroup", <<gr>>, out)

DeleteGroupOp ==
    /\ Idle
    /\ \E name \in {<<"g">>, <<"h">>} : \E out \in DeleteGroup(client, App, name) :
        Return("DeleteGroup", <<name>>, out)

GetAdBlockerStatusOp ==
    /\ Idle
    /\ \E out \in GetAdBlockerStatus(client, App) :
        Return("GetAdBlockerStatus", <<>>, out)

SetAdBlockEnabledOp ==
    /\ Idle
    /\ \E enable \in BOOLEAN : \E out \in SetAdBlockEnabled(client, App, enable) :
        Return("SetAdBlockEnabled", <<enable>>, out)

\* The caller reads the result of the call that returned and goes on.
ReadResult ==
    /\ phase = "ready"
    /\ last # NoCall
    /\ last' = NoCall
    /\ UNCHANGED <<client, phase, hosts, cnames, groups, blocking, loggedIn, callers>>

Next ==
    \/ InitOp
    \/ ReadResult
    \/ LoginOp
    \/ ListDNSRecordsOp
    \/ CreateDNSRecordOp
    \/ GetDNSRecordOp
    \/ DeleteDNSRecordOp
    \/ ListCNAMERecordsOp
    \/ CreateCNAMERecordOp
    \/ GetCNAMERecordOp
    \/ DeleteCNAMERecordOp
    \/ ListGroupsOp
    \/ GetGroupOp
    \/ GetGroupByIDOp
    \/ CreateGroupOp
    \/ UpdateGroupOp
    \/ DeleteGroupOp
    \/ GetAdBlockerStatusOp
    \/ SetAdBlockEnabledOp

Spec == Init /\ [][Next]_vars

SpecCF == InitCF /\ [][Next]_vars

-----------------------------------------------------------------------------
(* The form of a session request: mergeURLValues on the forms of a caller  *)

\* The lists of values of a key, and the forms over the keys token and a.
ValueLists == {<<"x">>, <<"y">>, <<"x", "y">>}

Forms == UNION {[keys -> ValueLists] : keys \in SUBSET {"token", "a"}}

\* The argument lists of mergeURLValues: one form or two.
FormLists == {<<f>> : f \in Forms} \cup {<<f, g>> : f \in Forms, g \in Forms}

\* A session-mode Client that holds a session, about to build a request.
InitMerge ==
    /\ client = [New([URL |-> "u", Password |-> "pw", APIToken |-> "",
                      CFServiceToken |-> FALSE])
                 EXCEPT !.sessionID = "s1", !.sessionToken = "t1"]
    /\ phase = "ready"
    /\ loggedIn = TRUE
    /\ hosts = <<>>
    /\ cnames = <<>>
    /\ groups = <<>>
    /\ blocking = "enabled"
    /\ last = NoCall
    /\ callers = NoCallers

mergeURLValuesOp ==
    /\ Idle
    /\ \E vs \in FormLists :
        last' = [op |-> "mergeURLValues", arg |-> vs, val |-> mergeURLValues(vs)]
    /\ UNCHANGED <<client, phase, hosts, cnames, groups, blocking, loggedIn, callers>>

\* RequestWithSession called with the form data on a Client that holds a
\* session: no login, the form of the request is the merged one.
RequestWithSessionOp ==
    /\ Idle
    /\ client.sessionID # "" /\ client.sessionToken # ""
    /\ \E data \in Forms :
        last' = [op |-> "RequestWithSession", arg |-> <<data>>,
                 val |-> SessionForm(client, data)]
    /\ UNCHANGED <<client, phase, hosts, cnames, groups, blocking, loggedIn, callers>>

NextMerge ==
    \/ mergeURLValuesOp
    \/ RequestWithSessionOp
    \/ ReadResult

SpecMerge == InitMerge /\ [][NextMerge]_vars

-----------------------------------------------------------------------------
(* Two callers on one shared Client, each making its first session        *)
(* operation while the Client holds no session                            *)

Callers == {1, 2}

\* The operations the callers make, and the request each of them sends.
RaceOps == {"ListGroups", "GetAdBlockerStatus"}

RacePath(op) == IF op = "ListGroups" THEN "/api/groups" ELSE "/api/dns/blocking"

\* The sessions the appliance issues, one per answered login, in order.
IssuedIDs == <<"s1", "s2">>

IssuedTokens == <<"t1", "t2">>

\* A caller that has not called yet.  c is the receiver of its operation (none
\* before the call), res the answer to its login (none before it), sent the
\* session its request carried.
NotCalled ==
    [pc |-> "idle", op |-> "none", c |-> <<>>, res |-> <<>>, sent |-> <<>>,
     err |-> Nil]

\* The logins that have been answered with a session.
Issued == {k \in Callers : callers[k].res # <<>>}

\* What POST /api/auth can answer to the next login: a rejection, or the next
\* session.
RaceLoginResponses ==
    {[status |-> 401, garbled |-> FALSE, sid |-> "", csrf |-> ""],
     [status |-> 200, garbled |-> FALSE,
      sid |-> IssuedIDs[Cardinality(Issued) + 1],
      csrf |-> IssuedTokens[Cardinality(Issued) + 1]]}

\* The shared Client: a session-mode Client that Init accepted, no session.
InitRace ==
    /\ client = New([URL |-> "u", Password |-> "pw", APIToken |-> "",
                     CFServiceToken |-> FALSE])
    /\ phase = "ready"
    /\ loggedIn = FALSE
    /\ hosts = <<>>
    /\ cnames = <<>>
    /\ groups = <<>>
    /\ blocking = "enabled"
    /\ last = NoCall
    /\ callers = [k \in Callers |-> NotCalled]

\* func (c Client) ListGroups / GetAdBlockerStatus: the call copies the shared
\* Client into the receiver c of the operation.
CallOperation(k) ==
    /\ callers[k].pc = "idle"
    /\ ~client.tokenClient
    /\ \E op \in RaceOps :
        callers' = [callers EXCEPT ![k] = [@ EXCEPT !.pc = "check", !.op = op,
                                                     !.c = <<client>>]]
    /\ UNCHANGED <<client, phase, hosts, cnames, groups, blocking, loggedIn, last>>

\* RequestWithSession: if c.sessionToken == "" || c.sessionID == "", on the
\* receiver of the operation.
CheckSession(k) ==
    /\ callers[k].pc = "check"
    /\ LET c == callers[k].c[1] IN
        callers' = [callers EXCEPT ![k].pc =
                        IF c.sessionToken = "" \/ c.sessionID = "" THEN "login"
                        ELSE "request"]
    /\ UNCHANGED <<client, phase, hosts, cnames, groups, blocking, loggedIn, last>>

\* login up to the two assignments: the request is sent and answered; on an
\* error Login wraps it and the operation returns it.
PostAuth(k) ==
    /\ callers[k].pc = "login"
    /\ \E r \in RaceLoginResponses :
        LET l == Login(callers[k].c[1], r) IN
        /\ callers' = [callers EXCEPT ![k] =
                IF l.err # Nil THEN [@ EXCEPT !.pc = "done", !.err = l.err]
                ELSE [@ EXCEPT !.pc = "storeID", !.res = <<r>>]]
        /\ loggedIn' = (loggedIn \/ l.err = Nil)
    /\ UNCHANGED <<client, phase, hosts, cnames, groups, blocking, last>>

\* c.sessionID = responseResult.Session.SID, c being the receiver of the
\* operation: the shared Client is not written.
StoreSessionID(k) ==
    /\ callers[k].pc = "storeID"
    /\ callers' = [callers EXCEPT ![k] =
            [@ EXCEPT !.pc = "storeToken",
                      !.c = <<[@[1] EXCEPT !.sessionID = callers[k].res[1].sid]>>]]
    /\ UNCHANGED <<client, phase, hosts, cnames, groups, blocking, loggedIn, last>>

\* c.sessionToken = responseResult.Session.CSRF, likewise.
StoreSessionToken(k) ==
    /\ callers[k].pc = "storeToken"
    /\ callers' = [callers EXCEPT ![k] =
            [@ EXCEPT !.pc = "request",
                      !.c = <<[@[1] EXCEPT !.sessionToken = callers[k].res[1].csrf]>>]]
    /\ UNCHANGED <<client, phase, hosts, cnames, groups, blocking, loggedIn, last>>

\* The request of the operation, with the session of the receiver, and its
\* answer: 200 for a session the appliance issued, 401 otherwise.
SendRequest(k) ==
    /\ callers[k].pc = "request"
    /\ LET c == callers[k].c[1]
           known == \E n \in 1..Cardinality(Issued) :
                        c.sessionID = IssuedIDs[n] /\ c.sessionToken = IssuedTokens[n]
       IN callers' = [callers EXCEPT ![k] =
            [@ EXCEPT !.pc = "done",
                      !.sent = <<[path |-> RacePath(callers[k].op),
                                  sid |-> c.sessionID, csrf |-> c.sessionToken]>>,
                      !.err = IF known THEN Nil ELSE StatusError(401)]]
    /\ UNCHANGED <<client, phase, hosts, cnames, groups, blocking, loggedIn, last>>

NextRace ==
    \/ \E k \in Callers : CallOperation(k)
    \/ \E k \in Callers : CheckSession(k)
    \/ \E k \in Callers : PostAuth(k)
    \/ \E k \in Callers : StoreSessionID(k)
    \/ \E k \in Callers : StoreSessionToken(k)
    \/ \E k \in Callers : SendRequest(k)

SpecRace == InitRace /\ [][NextRace]_vars

-----------------------------------------------------------------------------
(* Vocabulary of the properties                                            *)

SessionOps ==
    {"ListDNSRecords", "CreateDNSRecord", "GetDNSRecord", "DeleteDNSRecord",
     "ListCNAMERecords", "CreateCNAMERecord", "GetCNAMERecord", "DeleteCNAMERecord",
     "ListGroups", "GetGroup", "GetGroupByID", "CreateGroup", "UpdateGroup",
     "DeleteGroup", "GetAdBlockerStatus", "SetAdBlockEnabled"}

\* A resource operation has returned on a session-mode / a token-mode Client.
SessionCall == last.op \in SessionOps /\ ~last.pre.tokenClient

TokenCall == last.op \in SessionOps /\ last.pre.tokenClient

IsLogin(e) == e.method = "POST" /\ e.path = "/api/auth"

Logins(log) == {k \in 1..Len(log) : IsLogin(log[k])}

NoSession(c) == c.sessionID = "" /\ c.sessionToken = ""

-----------------------------------------------------------------------------
(* C1: on a session-mode Client with no prior session, the first           *)
(* ListDNSRecords call issues exactly one login request, before the GET of *)
(* /api/config/dns/hosts, and after the call has returned the Client's     *)
(* session identifier and session token are the sid and the csrf of the    *)
(* login response.  Stated for a call that returned a list.                *)
C1_FirstListLogsInOnceAndKeepsTheSession ==
    (/\ last.op = "ListDNSRecords"
     /\ ~last.pre.tokenClient
     /\ NoSession(last.pre)
     /\ last.err = Nil)
    => /\ Len(last.log) = 2
       /\ IsLogin(last.log[1])
       /\ last.log[2].method = "GET"
       /\ last.log[2].path = "/api/config/dns/hosts"
       /\ client.sessionID = last.log[1].rsid
       /\ client.sessionToken = last.log[1].rcsrf
       /\ client.sessionID # ""
       /\ client.sessionToken # ""

(* C2: the session is cached on the Client.  Once a login has succeeded    *)
(* with a non-empty sid and csrf, no later session-mode operation issues   *)
(* another login request; and an operation issues a login only when it     *)
(* finds the session identifier or the session token absent.               *)
C2_NoLoginOnceLoggedIn ==
    SessionCall
    => /\ last.logged => Logins(last.log) = {}
       /\ Logins(last.log) # {}
            => (last.pre.sessionID = "" \/ last.pre.sessionToken = "")

-----------------------------------------------------------------------------
DelegatedOps ==
    {"CreateDNSRecord", "GetDNSRecord", "DeleteDNSRecord",
     "CreateCNAMERecord", "GetCNAMERecord", "DeleteCNAMERecord"}

\* The delegate operation that matches a public operation, and the arguments
\* the public operation was called with, in the delegate's order.
MatchingDelegateOp(op) ==
    CASE op = "CreateDNSRecord"   -> "LocalDNS.Create"
      [] op = "GetDNSRecord"      -> "LocalDNS.Get"
      [] op = "DeleteDNSRecord"   -> "LocalDNS.Delete"
      [] op = "CreateCNAMERecord" -> "LocalCNAME.Create"
      [] op = "GetCNAMERecord"    -> "LocalCNAME.Get"
      [] op = "DeleteCNAMERecord" -> "LocalCNAME.Delete"

ForwardedArgs(op, arg) ==
    CASE op = "CreateDNSRecord"   -> <<arg[1].Domain, arg[1].IP>>
      [] op = "CreateCNAMERecord" -> <<arg[1].Domain, arg[1].Target>>
      [] OTHER                    -> <<arg[1]>>

\* The outcomes of a delegated operation called on Client c.
DelegatedOutcomes(op, c, arg) ==
    CASE op = "CreateDNSRecord"   -> CreateDNSRecord(c, App, arg[1])
      [] op = "GetDNSRecord"      -> GetDNSRecord(c, App, arg[1])
      [] op = "DeleteDNSRecord"   -> DeleteDNSRecord(c, App, arg[1])
      [] op = "CreateCNAMERecord" -> CreateCNAMERecord(c, App, arg[1])
      [] op = "GetCNAMERecord"    -> GetCNAMERecord(c, App, arg[1])
      [] op = "DeleteCNAMERecord" -> DeleteCNAMERecord(c, App, arg[1])

(* C3: with a token delegate configured, CreateDNSRecord, GetDNSRecord,    *)
(* DeleteDNSRecord, CreateCNAMERecord, GetCNAMERecord and                  *)
(* DeleteCNAMERecord send no request of their own (no login, no session    *)
(* request), leave the Client as it was, make exactly one call on the      *)
(* delegate, its matching operation with the arguments unchanged, and      *)
(* their outcomes do not depend on the session fields; also when a         *)
(* password is configured.                                                 *)
C3_TokenModeForwardsToDelegate ==
    (TokenCall /\ last.op \in DelegatedOps)
    => /\ last.log = <<>>
       /\ client = last.pre
       /\ Len(last.dlog) = 1
       /\ last.dlog[1].op = MatchingDelegateOp(last.op)
       /\ last.dlog[1].args = ForwardedArgs(last.op, last.arg)
       /\ DelegatedOutcomes(last.op, client, last.arg)
            = DelegatedOutcomes(last.op,
                                [client EXCEPT !.sessionID = "s1", !.sessionToken = "t1"],
                                last.arg)

\* A token Client that has a password too has created a DNS record through
\* the delegate.
C3_Witness ==
    /\ last.op = "CreateDNSRecord"
    /\ last.pre.tokenClient
    /\ last.pre.password = "pw"
    /\ last.err = Nil
    /\ last.val = <<last.arg[1]>>
    /\ Len(last.dlog) = 1

-----------------------------------------------------------------------------
NotImplementedOps ==
    {"ListGroups", "GetGroup", "GetGroupByID", "CreateGroup", "UpdateGroup",
     "DeleteGroup", "ListDNSRecords", "ListCNAMERecords", "GetAdBlockerStatus",
     "SetAdBlockEnabled"}

C4_Returned ==
    /\ (last.op \in NotImplementedOps /\ last.pre.tokenClient)
        => /\ last.err = ErrNotImplementedTokenClient
           /\ last.val = <<>>
           /\ last.log = <<>>
           /\ last.dlog = <<>>
           /\ client = last.pre
    /\ (last.op \in NotImplementedOps /\ ~last.pre.tokenClient)
        => last.err.kind # "NotImplementedTokenClient"

C4_StepLeavesStateUnchanged ==
    (last'.op \in NotImplementedOps /\ last'.pre.tokenClient)
    => UNCHANGED <<client, phase, hosts, cnames, groups, blocking>>

(* C4: on a token-mode Client, ListGroups, GetGroup, GetGroupByID,         *)
(* CreateGroup, UpdateGroup, DeleteGroup, ListDNSRecords,                  *)
(* ListCNAMERecords, GetAdBlockerStatus and SetAdBlockEnabled fail with    *)
(* NotImplementedForTokenClient, send no HTTP request and make no call on  *)
(* the delegate, and leave the Client and the appliance unchanged; on a    *)
(* session-mode Client none of them returns that error.                    *)
C4_NotImplementedForTokenClient ==
    []C4_Returned /\ [][C4_StepLeavesStateUnchanged]_vars

\* ListGroups has failed on a token Client whose appliance holds a group.
C4_Witness ==
    /\ last.op = "ListGroups"
    /\ last.pre.tokenClient
    /\ last.err = ErrNotImplementedTokenClient
    /\ Len(groups) > 0

-----------------------------------------------------------------------------
HasWhitespace(name) == \E i \in 1..Len(name) : name[i] \in Whitespace

\* The exchanges of a log that are not logins.
Requests(log) == {k \in 1..Len(log) : ~IsLogin(log[k])}

(* C5: in session mode CreateGroup fails locally, with no login and no     *)
(* POST /api/groups, for every name that has a whitespace character        *)
(* anywhere (leading, trailing or embedded); for a name without            *)
(* whitespace every POST /api/groups it sends carries exactly that name.   *)
C5_CreateGroupRejectsEveryWhitespaceName ==
    (last.op = "CreateGroup" /\ ~last.pre.tokenClient)
    => LET name == last.arg[1].Name IN
       IF HasWhitespace(name)
       THEN last.err.kind = "InvalidGroupName" /\ last.log = <<>>
       ELSE \A k \in 1..Len(last.log) :
              (last.log[k].method = "POST" /\ last.log[k].path = "/api/groups")
              => last.log[k].body.name = <<name>>

-----------------------------------------------------------------------------
\* The last exchange of the log is a GET answered 200 with the expected JSON:
\* the list was fetched.
Fetched(log) ==
    /\ Len(log) > 0
    /\ log[Len(log)].method = "GET"
    /\ log[Len(log)].status = 200
    /\ ~log[Len(log)].garbled

\* The positions of the separator in a line; a line has two fields when there
\* is exactly one.
Separators(line, sep) == {i \in 1..Len(line) : line[i] = sep}

TwoFields(line, sep) == Cardinality(Separators(line, sep)) = 1

FirstField(line, sep) ==
    LET i == CHOOSE k \in Separators(line, sep) : TRUE IN SubSeq(line, 1, i - 1)

SecondField(line, sep) ==
    LET i == CHOOSE k \in Separators(line, sep) : TRUE IN SubSeq(line, i + 1, Len(line))

\* The record a two-field line of the DNS hosts ("<ip> <domain>") or of the
\* CNAME records ("<domain>,<target>") stands for.
RecordOfHostLine(line) ==
    [IP |-> FirstField(line, " "), Domain |-> SecondField(line, " ")]

RecordOfCNAMELine(line) ==
    [Domain |-> FirstField(line, ","), Target |-> SecondField(line, ",")]

AllTwoFields(lines, sep) == \A i \in 1..Len(lines) : TwoFields(lines[i], sep)

(* C6: when ListDNSRecords or ListCNAMERecords has fetched the list: if     *)
(* every entry has exactly two fields (split on a space for the DNS hosts, *)
(* on a comma for the CNAME records) the call succeeds with one record per *)
(* entry, in the order of the entries, "<ip> <domain>" as {IP, Domain} and *)
(* "<domain>,<target>" as {Domain, Target}; if any entry, at any position, *)
(* has another number of fields the call fails and returns no list.        *)
C6_ListIsFailFastAndOrdered ==
    /\ (SessionCall /\ last.op = "ListDNSRecords" /\ Fetched(last.log))
        => IF AllTwoFields(hosts, " ")
           THEN /\ last.err = Nil
                /\ Len(last.val) = Len(hosts)
                /\ \A i \in 1..Len(hosts) : last.val[i] = RecordOfHostLine(hosts[i])
           ELSE last.err.kind = "ParseRecords" /\ last.val = <<>>
    /\ (SessionCall /\ last.op = "ListCNAMERecords" /\ Fetched(last.log))
        => IF AllTwoFields(cnames, ",")
           THEN /\ last.err = Nil
                /\ Len(last.val) = Len(cnames)
                /\ \A i \in 1..Len(cnames) : last.val[i] = RecordOfCNAMELine(cnames[i])
           ELSE last.err.kind = "ParseRecords" /\ last.val = <<>>

\* ListDNSRecords has failed on a list whose first entry is well formed and
\* whose second entry is not.
C6_Witness ==
    /\ SessionCall
    /\ last.op = "ListDNSRecords"
    /\ Fetched(last.log)
    /\ Len(hosts) = 2
    /\ TwoFields(hosts[1], " ")
    /\ ~TwoFields(hosts[2], " ")
    /\ last.err.kind = "ParseRecords"

-----------------------------------------------------------------------------
\* The entries of the list that are records of the domain.
HostLinesOf(domain) ==
    {i \in 1..Len(hosts) : TwoFields(hosts[i], " ") /\ SecondField(hosts[i], " ") = domain}

CNAMELinesOf(domain) ==
    {i \in 1..Len(cnames) : TwoFields(cnames[i], ",") /\ FirstField(cnames[i], ",") = domain}

Least(S) == CHOOSE i \in S : \A j \in S : i <= j

\* What a Get that scans a fetched list must return: parsed says every entry
\* parses, matches the positions of the domain's entries, record the record
\* of a line.
C7_Scan(parsed, matches, record(_)) ==
    /\ Fetched(last.log) /\ parsed /\ matches # {}
        => last.err = Nil /\ last.val = <<record(Least(matches))>>
    /\ Fetched(last.log) /\ parsed /\ matches = {}
        => last.err = NewNotFoundError /\ last.val = <<>>
    /\ Fetched(last.log) /\ ~parsed
        => last.err.kind = "ParseRecords" /\ last.val = <<>>
    /\ ~Fetched(last.log)
        => /\ last.val = <<>>
           /\ LET e == last.log[Len(last.log)] IN
              \/ IsLogin(e) /\ last.err.kind \in {"LoginFailed", "ClientValidationFailed"}
              \/ ~IsLogin(e) /\ e.status = 0 /\ last.err = TransportError
              \/ ~IsLogin(e) /\ e.status \notin {0, 200} /\ last.err = StatusError(e.status)
              \/ ~IsLogin(e) /\ e.status = 200 /\ e.garbled /\ last.err = DecodeError

\* What a Get that asks the delegate must return.
C7_Translated(notFound) ==
    /\ Len(last.dlog) = 1
    /\ last.err = IF last.dlog[1].err = notFound THEN NewNotFoundError
                  ELSE last.dlog[1].err

(* C7: GetDNSRecord and GetCNAMERecord return NotFound exactly when the    *)
(* key is absent.  In session mode they return the first entry of the      *)
(* fetched list whose Domain is the requested one, NotFound when the       *)
(* fetched list has none, and otherwise the failure itself (login          *)
(* failure, transport error, status other than 200, undecodable body,      *)
(* parse failure).  In token mode the delegate's not-found error becomes   *)
(* NotFound and every other delegate error is returned as it is.           *)
C7_GetReturnsNotFoundExactlyWhenAbsent ==
    /\ (SessionCall /\ last.op = "GetDNSRecord")
        => C7_Scan(AllTwoFields(hosts, " "), HostLinesOf(last.arg[1]),
                   LAMBDA i : RecordOfHostLine(hosts[i]))
    /\ (SessionCall /\ last.op = "GetCNAMERecord")
        => C7_Scan(AllTwoFields(cnames, ","), CNAMELinesOf(last.arg[1]),
                   LAMBDA i : RecordOfCNAMELine(cnames[i]))
    /\ (TokenCall /\ last.op = "GetDNSRecord") => C7_Translated(ErrorLocalDNSNotFound)
    /\ (TokenCall /\ last.op = "GetCNAMERecord") => C7_Translated(ErrorLocalCNAMENotFound)

\* GetDNSRecord has returned the first of two records of the domain.
C7_Witness ==
    /\ SessionCall
    /\ last.op = "GetDNSRecord"
    /\ Cardinality(HostLinesOf(last.arg[1])) = 2
    /\ last.err = Nil
    /\ last.val = <<RecordOfHostLine(hosts[1])>>

-----------------------------------------------------------------------------
IsHostLineOf(line, domain) == TwoFields(line, " ") /\ SecondField(line, " ") = domain

IsCNAMELineOf(line, domain) == TwoFields(line, ",") /\ FirstField(line, ",") = domain

\* The appliance keeps one record per domain.
OneRecordPerDomain(lines) ==
    \A i, j \in 1..Len(lines) :
        (TwoFields(lines[i], " ") /\ IsHostLineOf(lines[j], SecondField(lines[i], " ")))
        => i = j

\* The entries that are not records of the domain.
OtherDomains(lines, domain) == SelectSeq(lines, LAMBDA line : ~IsHostLineOf(line, domain))

\* The lists ListDNSRecords returns, called after the step.
ListsAfter == {l.val : l \in {o \in ListDNSRecords(client', App') : o.err = Nil}}

C8_AfterCreate ==
    (/\ last'.op = "CreateDNSRecord" /\ ~last'.pre.tokenClient /\ last'.err = Nil
     /\ OneRecordPerDomain(hosts))
    => LET record == last'.arg[1] IN
       /\ \A list \in ListsAfter :
            \E i \in 1..Len(list) : list[i] = [IP |-> record.IP, Domain |-> record.Domain]
       /\ AllTwoFields(hosts', " ") => ListsAfter # {}
       /\ OtherDomains(hosts', record.Domain) = OtherDomains(hosts, record.Domain)
       /\ OneRecordPerDomain(hosts')

C8_AfterDelete ==
    (/\ last'.op = "DeleteDNSRecord" /\ ~last'.pre.tokenClient /\ last'.err = Nil
     /\ OneRecordPerDomain(hosts))
    => LET domain == last'.arg[1] IN
       /\ \A list \in ListsAfter : \A i \in 1..Len(list) : list[i].Domain # domain
       /\ AllTwoFields(hosts', " ") => ListsAfter # {}
       /\ OtherDomains(hosts', domain) = OtherDomains(hosts, domain)
       /\ OneRecordPerDomain(hosts')

(* C8: against an appliance that keeps one record per domain, in session   *)
(* mode: after a successful CreateDNSRecord({IP: i, Domain: d}) every list *)
(* ListDNSRecords returns has an entry with exactly IP i and Domain d;     *)
(* after a successful DeleteDNSRecord(d) every list it returns has no      *)
(* entry with Domain d; in both cases the entries of the other domains     *)
(* are the same before and after, the appliance still keeps one record     *)
(* per domain, and ListDNSRecords can return a list when every entry has   *)
(* two fields.                                                             *)
C8_CreateListDeleteRoundTrip == [][C8_AfterCreate /\ C8_AfterDelete]_vars

\* DeleteDNSRecord has succeeded and left the record of another domain, on an
\* appliance that keeps one record per domain; no record of the deleted
\* domain is left.
C8_Witness ==
    /\ SessionCall
    /\ last.op = "DeleteDNSRecord"
    /\ last.err = Nil
    /\ Len(hosts) = 1
    /\ AllTwoFields(hosts, " ")
    /\ HostLinesOf(last.arg[1]) = {}

-----------------------------------------------------------------------------
\* The positions of the DELETE requests of a log, and of the GETs of a path
\* that were answered with the list.
Deletes(log) == {k \in 1..Len(log) : log[k].method = "DELETE"}

ListFetches(log, path) ==
    {k \in 1..Len(log) : /\ log[k].method = "GET" /\ log[k].path = path
                         /\ log[k].status = 200 /\ ~log[k].garbled}

\* The encoded path segments the PUT requests of a create of the record carry.
CreateDNSItems(record) ==
    UNION {{o.log[k].item : k \in {j \in 1..Len(o.log) : o.log[j].method = "PUT"}}
           : o \in CreateDNSRecord(client, App, record)}

CreateCNAMEItems(record) ==
    UNION {{o.log[k].item : k \in {j \in 1..Len(o.log) : o.log[j].method = "PUT"}}
           : o \in CreateCNAMERecord(client, App, record)}

\* A step of a session-mode delete: path is the endpoint, parsed says every
\* entry of the list before the step parses, matches are the positions of the
\* domain's entries, item the encoded segment of the record found and
\* createItems those a create of that record sends.
C9_Delete(path, parsed, matches, item, createItems, getOutcomes) ==
    LET log == last'.log
        found == parsed /\ matches # {}
    IN
    /\ Cardinality(Deletes(log)) <= 1
    /\ \A k \in Deletes(log) :
        /\ \E j \in ListFetches(log, path) : j < k
        /\ found
        /\ k = Len(log)
        /\ log[k].path = path
        /\ log[k].item = item
        /\ createItems = {item}
    /\ (ListFetches(log, path) = {} \/ ~found)
        => /\ Deletes(log) = {}
           /\ last'.err # Nil
           /\ \E g \in getOutcomes : g.err = last'.err /\ g.log = log
           /\ ListFetches(log, path) # {} /\ parsed => last'.err = NewNotFoundError
           /\ UNCHANGED <<hosts, cnames, groups, blocking>>

(* C9: in session mode DeleteDNSRecord and DeleteCNAMERecord send a DELETE *)
(* only after the list was fetched by the Get and the record was found in  *)
(* it, as their last request, to the encoded path a create of the record   *)
(* found uses (<ip>%20<domain>, <domain>%2C<target>); when the Get fails   *)
(* or the domain is not in the list no DELETE is sent, the Get's error is  *)
(* returned (NotFound for a missing key) and the appliance is unchanged.   *)
C9_DeleteGetsBeforeItDeletes ==
    [][/\ (last'.op = "DeleteDNSRecord" /\ ~last'.pre.tokenClient)
          => C9_Delete("/api/config/dns/hosts", AllTwoFields(hosts, " "),
                       HostLinesOf(last'.arg[1]),
                       LET r == RecordOfHostLine(hosts[Least(HostLinesOf(last'.arg[1]))])
                       IN  r.IP \o <<"%20">> \o r.Domain,
                       CreateDNSItems(
                           RecordOfHostLine(hosts[Least(HostLinesOf(last'.arg[1]))])),
                       GetDNSRecord(client, App, last'.arg[1]))
       /\ (last'.op = "DeleteCNAMERecord" /\ ~last'.pre.tokenClient)
          => C9_Delete("/api/config/dns/cnameRecords", AllTwoFields(cnames, ","),
                       CNAMELinesOf(last'.arg[1]),
                       LET r == RecordOfCNAMELine(cnames[Least(CNAMELinesOf(last'.arg[1]))])
                       IN  r.Domain \o <<"%2C">> \o r.Target,
                       CreateCNAMEItems(
                           RecordOfCNAMELine(cnames[Least(CNAMELinesOf(last'.arg[1]))])),
                       GetCNAMERecord(client, App, last'.arg[1]))]_vars

\* DeleteCNAMERecord has fetched the list, sent the DELETE of the record found
\* and got 204.
C9_Witness ==
    /\ SessionCall
    /\ last.op = "DeleteCNAMERecord"
    /\ last.err = Nil
    /\ ListFetches(last.log, "/api/config/dns/cnameRecords") # {}
    /\ Deletes(last.log) = {Len(last.log)}
    /\ last.log[Len(last.log)].item = last.arg[1] \o <<"%2C", "t">>
    /\ last.log[Len(last.log)].status = 204

-----------------------------------------------------------------------------
\* The request an operation is documented by and the status it succeeds on:
\* a Get is its list, a delete its DELETE, a group create or update its POST
\* or PUT.
Documented(op) ==
    CASE op \in {"ListDNSRecords", "GetDNSRecord"}
            -> [method |-> "GET", path |-> "/api/config/dns/hosts", status |-> 200]
      [] op \in {"ListCNAMERecords", "GetCNAMERecord"}
            -> [method |-> "GET", path |-> "/api/config/dns/cnameRecords", status |-> 200]
      [] op \in {"ListGroups", "GetGroup", "GetGroupByID"}
            -> [method |-> "GET", path |-> "/api/groups", status |-> 200]
      [] op = "GetAdBlockerStatus"
            -> [method |-> "GET", path |-> "/api/dns/blocking", status |-> 200]
      [] op = "SetAdBlockEnabled"
            -> [method |-> "POST", path |-> "/api/dns/blocking", status |-> 200]
      [] op = "CreateDNSRecord"
            -> [method |-> "PUT", path |-> "/api/config/dns/hosts", status |-> 201]
      [] op = "CreateCNAMERecord"
            -> [method |-> "PUT", path |-> "/api/config/dns/cnameRecords", status |-> 201]
      [] op = "CreateGroup"
            -> [method |-> "POST", path |-> "/api/groups", status |-> 201]
      [] op = "UpdateGroup"
            -> [method |-> "PUT", path |-> "/api/groups", status |-> 200]
      [] op = "DeleteDNSRecord"
            -> [method |-> "DELETE", path |-> "/api/config/dns/hosts", status |-> 204]
      [] op = "DeleteCNAMERecord"
            -> [method |-> "DELETE", path |-> "/api/config/dns/cnameRecords", status |-> 204]
      [] op = "DeleteGroup"
            -> [method |-> "DELETE", path |-> "/api/groups", status |-> 204]

\* The positions in the log of the operation's documented request.
OwnRequests(op, log) ==
    {k \in 1..Len(log) : /\ log[k].method = Documented(op).method
                         /\ log[k].path = Documented(op).path}

(* C10: a session-mode operation succeeds only when its documented request *)
(* was answered with its documented status: 200 for the lists and gets and *)
(* for get and set blocking, 201 for the DNS, CNAME and group creates, 200 *)
(* for the group update, 204 for the DNS, CNAME and group deletes.  When   *)
(* the request is answered with any other status, another 2xx included,    *)
(* it is the operation's last request and the operation returns no record  *)
(* and an error that carries the status received.                          *)
C10_SuccessOnlyOnDocumentedStatus ==
    SessionCall
    => /\ last.err = Nil
           => \E k \in OwnRequests(last.op, last.log) :
                 last.log[k].status = Documented(last.op).status
       /\ \A k \in OwnRequests(last.op, last.log) :
            (last.log[k].status \notin {0, Documented(last.op).status})
            => /\ k = Len(last.log)
               /\ last.val = <<>>
               /\ last.err.kind = "UnexpectedStatus"
               /\ last.err.code = last.log[k].status

\* CreateDNSRecord was answered 200 and has returned the error carrying 200.
C10_Witness ==
    /\ SessionCall
    /\ last.op = "CreateDNSRecord"
    /\ last.log[Len(last.log)].method = "PUT"
    /\ last.log[Len(last.log)].status = 200
    /\ last.err = StatusError(200)
    /\ last.val = <<>>

-----------------------------------------------------------------------------
AdBlockOps == {"GetAdBlockerStatus", "SetAdBlockEnabled"}

\* The last exchange of the log is the request of /api/dns/blocking answered
\* 200 with a JSON body.
BlockingAnswered(log) ==
    /\ Len(log) > 0
    /\ log[Len(log)].path = "/api/dns/blocking"
    /\ log[Len(log)].status = 200
    /\ ~log[Len(log)].garbled

(* C11: in session mode GetAdBlockerStatus and SetAdBlockEnabled return a  *)
(* result only for a 200 response with a JSON body, and derive it from the *)
(* "blocking" field of that response alone: "enabled" gives Enabled true,  *)
(* "disabled" gives Enabled false, any other value (empty or missing       *)
(* included) gives an error and no result.  What SetAdBlockEnabled was     *)
(* asked to set has no part in the result.                                 *)
C11_EnabledOnlyFromLiteralValues ==
    (SessionCall /\ last.op \in AdBlockOps)
    => /\ last.val # <<>> => (last.err = Nil /\ BlockingAnswered(last.log))
       /\ BlockingAnswered(last.log)
           => LET value == last.log[Len(last.log)].rblocking IN
              /\ value = "enabled"
                   => last.err = Nil /\ last.val = <<[Enabled |-> TRUE]>>
              /\ value = "disabled"
                   => last.err = Nil /\ last.val = <<[Enabled |-> FALSE]>>
              /\ value \notin {"enabled", "disabled"}
                   => last.err.kind = "UnexpectedBlocking" /\ last.val = <<>>

\* SetAdBlockEnabled(true) was answered 200 with blocking "disabled" and has
\* returned Enabled false.
C11_Witness ==
    /\ SessionCall
    /\ last.op = "SetAdBlockEnabled"
    /\ last.arg = <<TRUE>>
    /\ BlockingAnswered(last.log)
    /\ last.log[Len(last.log)].rblocking = "disabled"
    /\ last.val = <<[Enabled |-> FALSE]>>

-----------------------------------------------------------------------------
\* The calls that send requests: the resource operations and Login.
RequestingOps == SessionOps \cup {"Login"}

(* C12: every request a call on the Client sends, the login request POST   *)
(* /api/auth of an implicit login included, carries the reverse-proxy      *)
(* header pair when the credential pair is configured, and no request      *)
(* carries it when the pair is not configured.                             *)
C12_EveryRequestCarriesTheProxyHeaders ==
    last.op \in RequestingOps
    => \A k \in 1..Len(last.log) : last.log[k].cf = last.pre.cfServiceToken

-----------------------------------------------------------------------------
-----------------------------------------------------------------------------
(* C14: in every reachable state the session identifier and the session    *)
(* token of the Client are both empty or both non-empty, and a Login that  *)
(* returns an error has not left the Client with only one of the two set.  *)
C14_SessionHasTwoStates ==
    /\ (client.sessionID = "") <=> (client.sessionToken = "")
    /\ (last.op = "Login" /\ last.err # Nil)
        => ((client.sessionID = "") <=> (client.sessionToken = ""))

-----------------------------------------------------------------------------
\* The status a request succeeds on.
ExpectedStatus(e) ==
    CASE e.method = "GET" -> 200
      [] e.method = "DELETE" -> 204
      [] e.method = "POST" /\ e.path = "/api/dns/blocking" -> 200
      [] e.method = "PUT" /\ e.path = "/api/groups" -> 200
      [] OTHER -> 201

\* The appliance has rejected the request of an operation: it has answered
\* with a status that is not the one the request succeeds on.
Rejected(e) == ~IsLogin(e) /\ e.status # 0 /\ e.status # ExpectedStatus(e)

\* The exchanges of the log that are the same request as its k-th.
SameRequest(log, k) ==
    {j \in 1..Len(log) : /\ log[j].method = log[k].method
                         /\ log[j].path = log[k].path
                         /\ log[j].item = log[k].item}

(* C15: when the appliance rejects a request of a session-mode operation   *)
(* (401, or any status other than the expected one) the request was sent   *)
(* once, nothing is sent after it (no login, no second attempt), the       *)
(* operation returns the status-code error carrying that status and no     *)
(* result, and the session identifier and token of the Client are as they  *)
(* were.                                                                   *)
C15_NoReauthenticationNoRetry ==
    SessionCall
    => \A k \in 1..Len(last.log) :
          Rejected(last.log[k])
          => /\ k = Len(last.log)
             /\ SameRequest(last.log, k) = {k}
             /\ last.err = StatusError(last.log[k].status)
             /\ last.val = <<>>
             /\ client.sessionID = last.pre.sessionID
             /\ client.sessionToken = last.pre.sessionToken

\* ListDNSRecords on a Client that holds a session was answered 401: the GET
\* is its only request and the session is still the one of the Client.
C15_Witness ==
    /\ SessionCall
    /\ last.op = "ListDNSRecords"
    /\ last.pre.sessionID = "s1"
    /\ last.pre.sessionToken = "t1"
    /\ Len(last.log) = 1
    /\ last.log[1].status = 401
    /\ last.err = StatusError(401)
    /\ client.sessionID = "s1"

-----------------------------------------------------------------------------
\* The keys of the forms of a list, and the last form of the list that has
\* the key.
KeysOf(vs) == UNION {DOMAIN vs[i] : i \in 1..Len(vs)}

LastWith(vs, key) ==
    vs[CHOOSE i \in 1..Len(vs) :
          /\ key \in DOMAIN vs[i]
          /\ \A j \in (i + 1)..Len(vs) : key \notin DOMAIN vs[j]]

(* C17: the merge is last-value-wins per key.  The form mergeURLValues     *)
(* returns has the keys of its arguments and holds for every key exactly   *)
(* one value, the value of the last argument that has the key.  The form   *)
(* of a session request holds for the key token only the caller's value    *)
(* when the caller supplies one, the CSRF token of the session otherwise,  *)
(* and for every other key the caller's values.                            *)
C17_MergeIsLastValueWins ==
    /\ last.op = "mergeURLValues"
        => /\ DOMAIN last.val = KeysOf(last.arg)
           /\ \A key \in DOMAIN last.val :
                /\ Len(last.val[key]) = 1
                /\ last.val[key][1] = LastWith(last.arg, key)[key][1]
    /\ last.op = "RequestWithSession"
        => LET data == last.arg[1] IN
           /\ DOMAIN last.val = DOMAIN data \cup {"token"}
           /\ \A key \in DOMAIN data : last.val[key] = data[key]
           /\ "token" \notin DOMAIN data => last.val["token"] = <<client.sessionToken>>

-----------------------------------------------------------------------------
\* The Group a group of the appliance's response stands for.
GroupOfResponse(v) ==
    [ID           |-> v.id,
     Name         |-> v.name,
     Enabled      |-> v.enabled,
     DateAdded    |-> v.date_added,
     DateModified |-> v.date_modified,
     Description  |-> IF v.comment = <<>> THEN <<>> ELSE v.comment[1]]

\* The positions of the appliance's groups with the name, with the id.
GroupsWithName(name) == {i \in 1..Len(groups) : groups[i].name = name}

GroupsWithID(id) == {i \in 1..Len(groups) : groups[i].id = id}

C18_First(matches) ==
    (Fetched(last.log) /\ matches # {})
    => last.err = Nil /\ last.val = <<GroupOfResponse(groups[Least(matches)])>>

(* C18: when ListGroups has fetched the groups it returns one Group per    *)
(* group of the response, in order: ID from id, Name from name, Enabled    *)
(* from enabled, DateAdded from date_added, DateModified from              *)
(* date_modified, Description from comment, a null comment giving the      *)
(* empty string.  GetGroup and GetGroupByID return the first group of      *)
(* that list whose Name, whose ID, is the one asked for.                   *)
C18_GroupsAreTranslatedFieldByField ==
    /\ (SessionCall /\ last.op = "ListGroups" /\ Fetched(last.log))
        => /\ last.err = Nil
           /\ Len(last.val) = Len(groups)
           /\ \A i \in 1..Len(groups) : last.val[i] = GroupOfResponse(groups[i])
    /\ (SessionCall /\ last.op = "GetGroup") => C18_First(GroupsWithName(last.arg[1]))
    /\ (SessionCall /\ last.op = "GetGroupByID") => C18_First(GroupsWithID(last.arg[1]))

-----------------------------------------------------------------------------
\* Both callers' operations have logged in and stored what the login returned.
BothLoggedIn ==
    \A k \in Callers : callers[k].res # <<>> /\ callers[k].pc \in {"request", "done"}

\* The shared Client holds the identifier of one login response and the token
\* of the other.
MixedSession ==
    \E i, j \in Callers :
        /\ i # j
        /\ callers[i].res # <<>> /\ callers[j].res # <<>>
        /\ client.sessionID = callers[i].res[1].sid
        /\ client.sessionToken = callers[j].res[1].csrf

(* C16: two callers make their first session operation concurrently on a   *)
(* shared Client that holds no session.  Both log in, and each login       *)
(* writes the session identifier and the session token of the shared       *)
(* Client: once both have stored what their logins returned, the shared    *)
(* Client holds an identifier and a token out of the two login responses,  *)
(* those of one response or the identifier of one and the token of the     *)
(* other.                                                                  *)
C16_ConcurrentLoginsWriteTheSharedClient ==
    BothLoggedIn
    => \E i, j \in Callers :
        /\ client.sessionID = callers[i].res[1].sid
        /\ client.sessionToken = callers[j].res[1].csrf

=============================================================================
